---- MODULE Spec2Model ----
(***************************************************************************)
(* Model of proxy/handler.go: the per-connection loop Handler.handle, the  *)
(* batch allocator allocMaxConcurrent, and the close path deferHandle /    *)
(* closeWithError, together with the collaborators the loop calls (codec,  *)
(* forwarder, registry, message pool, wait group).                         *)
(***************************************************************************)
EXTENDS Integers, Sequences, FiniteSets, TLC

\* ---- bounds of the model ------------------------------------------------
MaxBase == 2            \* largest configured base capacity / growth factor
MaxMaxConcurrent == 3   \* largest small configured maximum
MaxDecode == 2          \* most messages one Decode call returns
MaxCycles == 3          \* most Decode calls of one connection
MaxGen == 3             \* most forwarder generations per cluster
MaxExtClose == 2        \* most external calls of closeWithError

\* ---- program constants --------------------------------------------------
handlerOpening == 0
handlerClosed == 1
DefaultConcurrent == 2
DefaultMaxConcurrent == 1024

ForwarderStateOpening == "open"
ForwarderStateClosed == "closed"

Clusters == {1, 2}
\* Handler.ClusterID: the cluster this connection was accepted for
ClusterID == 1
NoFwd == <<0, 0>>
AllFwd == Clusters \X (1..MaxGen)
ExtErrs == {"shutdown"}
NoForward == [fwd |-> NoFwd, reqs |-> <<>>, ok |-> FALSE]

VARIABLES
    concurrent, maxConcurrent,      \* package variables (handler.go:28-32)
    closeWhenChange,                \* Handler.closeWhenChange
    closed, herr,                   \* Handler.closed, Handler.err
    pc,                             \* position of the handle() goroutine
    messages,                       \* handle(): messages (batch id, 0 = nil)
    nmsgs,                          \* handle(): len(msgs)
    forwarder,                      \* handle(): forwarder
    fState,                         \* handle(): fState of this cycle
    encIdx,                         \* handle(): position of the encode loop
    wg,                             \* handle(): the WaitGroup counter
    batches, pool, nPut, nGet,      \* message pool: all batches, the free ones
    inflight,                       \* outstanding sub-dispatches <<batch, slot>>
    doneOrder,                      \* completion order of this cycle's sub-dispatches
    current,                        \* registry: current generation per cluster
    acquired, released,             \* forwarder references taken / released
    nAcqCycle, stale,               \* GetForwarder calls of this cycle, the stale one released
    conns, rawCloses, removed,      \* p.conns, conn.Close() calls, RemoveConnection calls
    closeCalls, firstErr,           \* closeWithError invocations, error of the first
    wbuf, client,                   \* codec write buffer, responses the client got this cycle
    decoded,                        \* requests Decode returned this cycle, in order
    hist,                           \* SpecAlloc: per cycle, capacity handed to Decode and count decoded
    lastFwd, nFwdCycle,             \* this cycle's Forward call, number of them
    cacheType,                      \* h.CacheType
    constructed,                    \* "none", "ok" or "panic": how NewHandler ended
    gauge,                          \* prom connection gauge of h.Name
    checked,                        \* the forwarder this cycle's State() call was made on
    uar,                            \* a State, Forward or Encode call used a released reference
    cycle, exitPath

cfgVars == <<concurrent, maxConcurrent, closeWhenChange, cacheType, constructed>>
closeVars == <<closed, herr, conns, gauge, rawCloses, closeCalls, firstErr>>
localVars == <<messages, nmsgs, forwarder, encIdx>>
poolVars == <<pool, nPut, nGet>>
refVars == <<acquired, released>>
cycleVars == <<fState, stale, doneOrder, lastFwd, nFwdCycle, nAcqCycle, client, decoded,
               checked>>

vars == <<cfgVars, closeVars, pc, localVars, wg, batches, poolVars, inflight, current,
          refVars, removed, wbuf, hist, cycle, exitPath, cycleVars, uar>>

Min(a, b) == IF a < b THEN a ELSE b

\* ---- messages and the pool ----------------------------------------------
CleanSlot == [req |-> 0, resp |-> 0, end |-> FALSE, subs |-> 0]

NewBatch(n) == [slots |-> [i \in 1..n |-> CleanSlot], wg |-> FALSE]

Cap(bs, b) == IF b = 0 THEN 0 ELSE Len(bs[b].slots)

\* proto.PutMsgs(msgs): the batch goes back to the pool (nil puts nothing)
PutMsgs(pl, b) == IF b = 0 THEN pl ELSE pl \cup {b}

\* proto.GetMsgs(n): a pooled batch of that capacity, or a fresh one
GetMsgs(bs, pl, n) == {b \in pl : Cap(bs, b) = n} \cup {Len(bs) + 1}

WithWaitGroupForgotten(bs, b) == bs

\* msg.WithWaitGroup(wg) for every message of the batch
WithWaitGroup(bs, b) == [bs EXCEPT ![b].wg = TRUE]

ResetMsgsForgotten(bs, b, n) == bs

\* msg.Reset() for msgs[0..n)
ResetMsgs(bs, b, n) ==
    [bs EXCEPT ![b].slots = [i \in 1..Len(@) |-> IF i <= n THEN CleanSlot ELSE @[i]]]

\* Decode fills msgs[0..n) with the next requests of the stream
FillMsgs(bs, b, n, first) ==
    [bs EXCEPT ![b].slots =
        [i \in 1..Len(@) |-> IF i <= n THEN [@[i] EXCEPT !.req = first + i] ELSE @[i]]]

\* the stream's requests are numbered; those of cycle c follow ReqBase(c)
ReqBase(c) == c * (MaxDecode + 1)

Reqs(bs, b, n) == [i \in 1..n |-> bs[b].slots[i].req]

\* ---- allocMaxConcurrent (handler.go:153-168) -----------------------------
AllocSizeGrowAlways(lm, lastCount) ==
    IF lm = 0 THEN concurrent
    ELSE IF lm < maxConcurrent THEN lm * concurrent
    ELSE 0

AllocSizeShrink(lm, lastCount) ==
    IF lm = 0 THEN concurrent
    ELSE IF lm < maxConcurrent /\ lm = lastCount THEN lm * concurrent
    ELSE IF lastCount < lm THEN concurrent
    ELSE 0

\* the value of the local `alloc`
AllocSize(lm, lastCount) ==
    IF lm = 0 THEN concurrent
    ELSE IF lm < maxConcurrent /\ lm = lastCount THEN lm * concurrent
    ELSE 0

\* the batch the allocator returns and what it did to the pool;
\* pick is the batch GetMsgs hands out (0 when nothing is allocated)
allocMaxConcurrent(bs, pl, m, lastCount, pick) ==
    LET alloc == AllocSize(Cap(bs, m), lastCount)
        pl1 == PutMsgs(pl, m)
        bs1 == IF pick = Len(bs) + 1 THEN Append(bs, NewBatch(alloc)) ELSE bs
    IN IF alloc > 0
       THEN [ok |-> pick \in GetMsgs(bs, pl1, alloc),
             messages |-> pick,
             batches |-> IF pick \in 1..Len(bs1) THEN WithWaitGroup(bs1, pick) ELSE bs1,
             pool |-> pl1 \ {pick},
             put |-> IF m = 0 THEN 0 ELSE 1,
             get |-> 1]
       ELSE [ok |-> pick = 0, messages |-> m, batches |-> bs, pool |-> pl,
             put |-> 0, get |-> 0]

\* ---- registry and forwarder ---------------------------------------------
\* Proxy.GetForwarder(cid): the current forwarder of the cluster
GetForwarder(cid) == <<cid, current[cid]>>

\* Forwarder.State(): closed once the cluster's topology has moved on
State(f) == IF f[2] = current[f[1]] THEN ForwarderStateOpening ELSE ForwarderStateClosed

\* Forwarder.Release()
Release(rel, f) == [rel EXCEPT ![f] = @ + 1]

Acquire(acq, f) == [acq EXCEPT ![f] = @ + 1]

\* a call on f while the handler holds no reference to it
usedAfterRelease(f) == released[f] >= acquired[f]

releaseOnExitForgotten(rel, f) == rel

\* handle(): forwarder.Release() next to deferHandle on an exit path
releaseOnExit(rel, f) == Release(rel, f)

reacquireKeepsStale(cid, old) == old

\* handle() line 112: the forwarder the loop goes on with
reacquire(cid, old) == GetForwarder(cid)

\* ---- close path (handler.go:170-189) -------------------------------------
\* line 182: the metrics switch prom.On
PromOn == TRUE

closeWithErrorNoCAS(e) ==
    /\ closeCalls' = closeCalls + 1
    /\ firstErr' = IF closeCalls = 0 THEN e ELSE firstErr
    /\ closed' = handlerClosed
    /\ herr' = e
    /\ rawCloses' = rawCloses + 1
    /\ conns' = conns - 1
    /\ gauge' = IF PromOn THEN gauge - 1 ELSE gauge

closeWithError(e) ==
    /\ closeCalls' = closeCalls + 1
    /\ firstErr' = IF closeCalls = 0 THEN e ELSE firstErr
    /\ IF closed = handlerOpening
       THEN /\ closed' = handlerClosed
            /\ herr' = e
            /\ rawCloses' = rawCloses + 1
            /\ conns' = conns - 1
            /\ gauge' = IF PromOn THEN gauge - 1 ELSE gauge
       ELSE UNCHANGED <<closed, herr, rawCloses, conns, gauge>>

deferHandleNoPut(e) ==
    /\ removed' = removed + 1
    /\ UNCHANGED <<pool, nPut>>
    /\ closeWithError(e)

deferHandle(e) ==
    /\ removed' = removed + 1
    /\ pool' = PutMsgs(pool, messages)
    /\ nPut' = nPut + 1
    /\ closeWithError(e)

\* ---- encode loop ----------------------------------------------------------
EncodeOrderByCompletion(n, done) == done

EncodeOrderSkipLast(n, done) == [i \in 1..(n - 1) |-> i]

\* `for _, msg := range msgs`: the slots in the order the loop visits them
EncodeOrder(n, done) == [i \in 1..n |-> i]

\* ---- initial state: after NewHandler, before Handle() ---------------------
\* ---- NewHandler(): lines 51-76 ---------------------------------------------
CacheTypes == {"memcache", "memcache_binary", "redis", "redis_cluster", "unknown"}

IsSupportedAny(ct) == TRUE

\* lines 62-73: the cases of the switch that do not panic
IsSupported(ct) == ct \in {"memcache", "memcache_binary", "redis", "redis_cluster"}

\* the fields NewHandler does not decide
InitFields ==
    /\ concurrent \in 1..MaxBase
    /\ maxConcurrent \in (concurrent..MaxMaxConcurrent) \cup {DefaultMaxConcurrent}
    /\ closeWhenChange \in BOOLEAN
    /\ closed = handlerOpening
    /\ herr = "nil"
    /\ pc = "init"
    /\ messages = 0
    /\ nmsgs = 0
    /\ forwarder = NoFwd
    /\ fState = "none"
    /\ encIdx = 0
    /\ wg = 0
    /\ batches = <<>>
    /\ pool = {}
    /\ nPut = 0
    /\ nGet = 0
    /\ inflight = {}
    /\ doneOrder = <<>>
    /\ current = [c \in Clusters |-> 1]
    /\ acquired = [f \in AllFwd |-> 0]
    /\ released = [f \in AllFwd |-> 0]
    /\ nAcqCycle = 0
    /\ stale = NoFwd
    /\ conns = 1
    /\ rawCloses = 0
    /\ removed = 0
    /\ closeCalls = 0
    /\ firstErr = "nil"
    /\ wbuf = <<>>
    /\ client = <<>>
    /\ decoded = <<>>
    /\ hist = <<>>
    /\ lastFwd = NoForward
    /\ nFwdCycle = 0
    /\ cycle = 0
    /\ exitPath = "none"
    /\ checked = NoFwd
    /\ uar = FALSE

\* the cache type of the connection that is followed through its loop
CacheType == "redis"

\* the state before NewHandler is called
InitNew ==
    /\ InitFields
    /\ cacheType = "none"
    /\ constructed = "none"
    /\ gauge = 0

NewHandler(ct) ==
    /\ constructed = "none"
    /\ cacheType' = ct
    /\ IF IsSupported(ct)
       THEN /\ constructed' = "ok"
            /\ gauge' = gauge + 1
       ELSE /\ constructed' = "panic"
            /\ gauge' = gauge
    /\ UNCHANGED <<concurrent, maxConcurrent, closeWhenChange, closed, herr, conns,
                   rawCloses, closeCalls, firstErr, pc, localVars, wg, batches, poolVars,
                   inflight, current, refVars, removed, wbuf, hist, cycle, exitPath,
                   cycleVars, uar>>

\* the state NewHandler returns for a supported cache type
Init ==
    /\ InitFields
    /\ cacheType = CacheType
    /\ constructed = "ok"
    /\ gauge = 1

\* ---- handle(): lines 92-94 -------------------------------------------------
Start ==
    /\ constructed = "ok"
    /\ pc = "init"
    /\ \E pick \in 0..(Len(batches) + 1) :
         LET r == allocMaxConcurrent(batches, pool, messages, nmsgs, pick)
         IN /\ r.ok
            /\ messages' = r.messages
            /\ batches' = r.batches
            /\ pool' = r.pool
            /\ nPut' = nPut + r.put
            /\ nGet' = nGet + r.get
    /\ forwarder' = GetForwarder(ClusterID)
    /\ acquired' = Acquire(acquired, GetForwarder(ClusterID))
    /\ pc' = "decode"
    /\ UNCHANGED <<uar, cfgVars, closeVars, nmsgs, encIdx, wg, inflight, current, released,
                   removed, wbuf, hist, cycle, exitPath, cycleVars>>

\* ---- handle(): line 97, Decode returned n messages and no error -----------
DecodeOk(n) ==
    /\ pc = "decode"
    /\ cycle < MaxCycles
    /\ n \in 0..Min(Cap(batches, messages), MaxDecode)
    /\ batches' = FillMsgs(batches, messages, n, ReqBase(cycle + 1))
    /\ nmsgs' = n
    /\ decoded' = [i \in 1..n |-> ReqBase(cycle + 1) + i]
    /\ cycle' = cycle + 1
    /\ pc' = "check"
    /\ UNCHANGED <<checked, uar, cfgVars, closeVars, messages, forwarder, encIdx, wg, poolVars,
                   inflight, current, refVars, removed, wbuf, hist, exitPath, fState,
                   stale, doneOrder, lastFwd, nFwdCycle, nAcqCycle, client>>

\* ---- handle(): lines 97-102, Decode failed after filling k slots ----------
DecodeFail(k) ==
    /\ pc = "decode"
    /\ cycle < MaxCycles
    /\ k \in 0..Min(Cap(batches, messages), MaxDecode)
    /\ batches' = FillMsgs(batches, messages, k, ReqBase(cycle + 1))
    /\ nmsgs' = k
    /\ cycle' = cycle + 1
    /\ deferHandle("decode")
    /\ released' = releaseOnExit(released, forwarder)
    /\ pc' = "done"
    /\ exitPath' = "decode"
    /\ UNCHANGED <<uar, cfgVars, messages, forwarder, encIdx, wg, nGet, inflight, current,
                   acquired, wbuf, hist, cycleVars>>

\* ---- handle(): lines 103-113, the State() check ---------------------------
\* line 104: the held forwarder has to be given up
forwarderClosed(st) == st = ForwarderStateClosed

ShouldCloseNever(st, policy) == FALSE

\* line 106: close instead of re-acquiring
ShouldClose(st, policy) == st = ForwarderStateClosed /\ policy

CheckState ==
    /\ pc = "check"
    /\ fState' = State(forwarder)
    /\ IF forwarderClosed(State(forwarder))
       THEN /\ released' = Release(released, forwarder)
            /\ stale' = forwarder
            /\ IF ShouldClose(State(forwarder), closeWhenChange)
               THEN /\ deferHandle("nil")
                    /\ pc' = "done"
                    /\ exitPath' = "topology"
               ELSE /\ pc' = "reacquire"
                    /\ UNCHANGED <<closeVars, removed, pool, nPut, exitPath>>
       ELSE /\ pc' = "forward"
            /\ UNCHANGED <<closeVars, removed, pool, nPut, exitPath, released, stale>>
    /\ UNCHANGED <<cfgVars, localVars, wg, batches, nGet, inflight, current, acquired,
                   wbuf, hist, cycle, doneOrder, lastFwd, nFwdCycle, nAcqCycle, client,
                   decoded>>
    /\ uar' = (uar \/ usedAfterRelease(forwarder))
    /\ checked' = forwarder

\* ---- handle(): line 112 ----------------------------------------------------
Reacquire ==
    /\ pc = "reacquire"
    /\ forwarder' = reacquire(ClusterID, forwarder)
    /\ acquired' = Acquire(acquired, GetForwarder(ClusterID))
    /\ nAcqCycle' = nAcqCycle + 1
    /\ pc' = "forward"
    /\ UNCHANGED <<checked, uar, cfgVars, closeVars, messages, nmsgs, encIdx, wg, batches, poolVars,
                   inflight, current, released, removed, wbuf, hist, cycle, exitPath,
                   fState, stale, doneOrder, lastFwd, nFwdCycle, client, decoded>>

\* a sub-dispatch counts on the wait group its message carries, if any
Attached(bs, b, k) == IF bs[b].wg THEN k ELSE 0

\* ---- handle(): line 115, Forward returned nil -----------------------------
Dispatch(bs, b, k) ==
    [bs EXCEPT ![b].slots = [i \in 1..Len(@) |-> IF i <= k THEN [@[i] EXCEPT !.subs = 1] ELSE @[i]]]

ForwardOk ==
    /\ pc = "forward"
    /\ State(forwarder) = ForwarderStateOpening
    /\ lastFwd' = [fwd |-> forwarder, reqs |-> Reqs(batches, messages, nmsgs), ok |-> TRUE]
    /\ nFwdCycle' = nFwdCycle + 1
    /\ batches' = Dispatch(batches, messages, nmsgs)
    /\ inflight' = inflight \cup {<<messages, i>> : i \in 1..nmsgs}
    /\ wg' = wg + Attached(batches, messages, nmsgs)
    /\ pc' = "wait"
    /\ UNCHANGED <<checked, cfgVars, closeVars, localVars, poolVars, current, refVars, removed,
                   wbuf, hist, cycle, exitPath, fState, stale, doneOrder, nAcqCycle,
                   client, decoded>>
    /\ uar' = (uar \/ usedAfterRelease(forwarder))

\* ---- handle(): lines 115-121, Forward failed after k sub-dispatches -------
ForwardFail(k) ==
    /\ pc = "forward"
    /\ k \in 0..(IF State(forwarder) = ForwarderStateClosed \/ nmsgs = 0 THEN 0 ELSE nmsgs - 1)
    /\ lastFwd' = [fwd |-> forwarder, reqs |-> Reqs(batches, messages, nmsgs), ok |-> FALSE]
    /\ nFwdCycle' = nFwdCycle + 1
    /\ batches' = Dispatch(batches, messages, k)
    /\ inflight' = inflight \cup {<<messages, i>> : i \in 1..k}
    /\ wg' = wg + Attached(batches, messages, k)
    /\ deferHandle("forward")
    /\ released' = releaseOnExit(released, forwarder)
    /\ pc' = "done"
    /\ exitPath' = "forward"
    /\ UNCHANGED <<checked, cfgVars, localVars, nGet, current, acquired, wbuf, hist, cycle,
                   fState, stale, doneOrder, nAcqCycle, client, decoded>>
    /\ uar' = (uar \/ usedAfterRelease(forwarder))

\* ---- a backend sub-dispatch completes: fills the response, wg.Done() ------
SubDone(b, i) ==
    /\ <<b, i>> \in inflight
    /\ inflight' = inflight \ {<<b, i>>}
    /\ batches' = [batches EXCEPT ![b].slots[i].resp = batches[b].slots[i].req]
    /\ wg' = wg - Attached(batches, b, 1)
    /\ doneOrder' = Append(doneOrder, i)
    /\ UNCHANGED <<checked, uar, cfgVars, closeVars, pc, localVars, poolVars, current, refVars,
                   removed, wbuf, hist, cycle, exitPath, fState, stale, lastFwd,
                   nFwdCycle, nAcqCycle, client, decoded>>

\* ---- handle(): line 122, wg.Wait() returns --------------------------------
WaitReturnsAlways(w) == TRUE

\* wg.Wait() returns once the counter is zero
WaitReturns(w) == w = 0

Wait ==
    /\ pc = "wait"
    /\ WaitReturns(wg)
    /\ encIdx' = 1
    /\ pc' = IF Len(EncodeOrder(nmsgs, doneOrder)) = 0 THEN "flush" ELSE "encode"
    /\ UNCHANGED <<uar, cfgVars, closeVars, messages, nmsgs, forwarder, wg, batches,
                   poolVars, inflight, current, refVars, removed, wbuf, hist, cycle,
                   exitPath, cycleVars>>

\* ---- handle(): lines 124-137, one message encoded --------------------------
EncodeOk ==
    /\ pc = "encode"
    /\ LET order == EncodeOrder(nmsgs, doneOrder)
           i == order[encIdx]
       IN /\ wbuf' = Append(wbuf, batches[messages].slots[i].resp)
          /\ batches' = [batches EXCEPT ![messages].slots[i] =
                            [@ EXCEPT !.end = TRUE, !.subs = 0]]
          /\ encIdx' = encIdx + 1
          /\ pc' = IF encIdx = Len(order) THEN "flush" ELSE "encode"
    /\ UNCHANGED <<cfgVars, closeVars, messages, nmsgs, forwarder, wg, poolVars,
                   inflight, current, refVars, removed, hist, cycle, exitPath,
                   cycleVars>>
    /\ uar' = (uar \/ usedAfterRelease(forwarder))

\* ---- handle(): lines 125-131, Encode failed; Flush() delivers k responses --
EncodeFail(k) ==
    /\ pc = "encode"
    /\ k \in 0..Len(wbuf)
    /\ client' = client \o SubSeq(wbuf, 1, k)
    /\ wbuf' = <<>>
    /\ deferHandle("encode")
    /\ released' = releaseOnExit(released, forwarder)
    /\ pc' = "done"
    /\ exitPath' = "encode"
    /\ UNCHANGED <<checked, cfgVars, localVars, wg, batches, nGet, inflight, current, acquired,
                   hist, cycle, fState, stale, doneOrder, lastFwd, nFwdCycle,
                   nAcqCycle, decoded>>
    /\ uar' = (uar \/ usedAfterRelease(forwarder))

\* ---- handle(): line 138, Flush returned nil --------------------------------
FlushOk ==
    /\ pc = "flush"
    /\ client' = client \o wbuf
    /\ wbuf' = <<>>
    /\ pc' = "reset"
    /\ UNCHANGED <<checked, uar, cfgVars, closeVars, localVars, wg, batches, poolVars, inflight,
                   current, refVars, removed, hist, cycle, exitPath, fState, stale,
                   doneOrder, lastFwd, nFwdCycle, nAcqCycle, decoded>>

\* ---- handle(): lines 138-143, Flush failed after delivering k responses ----
FlushFail(k) ==
    /\ pc = "flush"
    /\ k \in 0..Len(wbuf)
    /\ client' = client \o SubSeq(wbuf, 1, k)
    /\ wbuf' = <<>>
    /\ deferHandle("flush")
    /\ released' = releaseOnExit(released, forwarder)
    /\ pc' = "done"
    /\ exitPath' = "flush"
    /\ UNCHANGED <<checked, uar, cfgVars, localVars, wg, batches, nGet, inflight, current, acquired,
                   hist, cycle, fState, stale, doneOrder, lastFwd, nFwdCycle,
                   nAcqCycle, decoded>>

\* ---- handle(): lines 145-149, reset the messages and re-run the allocator; --
\* ---- the iteration ends, so what belonged to this cycle is dropped ----------
ResetAlloc ==
    /\ pc = "reset"
    /\ \E pick \in 0..(Len(batches) + 1) :
         LET r == allocMaxConcurrent(ResetMsgs(batches, messages, nmsgs), pool,
                                     messages, nmsgs, pick)
         IN /\ r.ok
            /\ messages' = r.messages
            /\ batches' = r.batches
            /\ pool' = r.pool
            /\ nPut' = nPut + r.put
            /\ nGet' = nGet + r.get
    /\ pc' = "decode"
    /\ encIdx' = 0
    /\ fState' = "none"
    /\ stale' = NoFwd
    /\ doneOrder' = <<>>
    /\ lastFwd' = NoForward
    /\ nFwdCycle' = 0
    /\ nAcqCycle' = 0
    /\ client' = <<>>
    /\ decoded' = <<>>
    /\ checked' = NoFwd
    /\ UNCHANGED <<uar, cfgVars, closeVars, nmsgs, forwarder, wg, inflight, current, refVars,
                   removed, wbuf, hist, cycle, exitPath>>

\* ---- closeWithError called from outside the loop (shutdown) ----------------
ExternalClose(e) ==
    /\ constructed = "ok"
    /\ closeCalls - removed < MaxExtClose
    /\ closeWithError(e)
    /\ UNCHANGED <<uar, cfgVars, pc, localVars, wg, batches, poolVars, inflight, current,
                   refVars, removed, wbuf, hist, cycle, exitPath, cycleVars>>

\* ---- the registry replaces a cluster's forwarder; the old one is closed ----
TopologyChange(c) ==
    /\ current[c] < MaxGen
    /\ current' = [current EXCEPT ![c] = @ + 1]
    /\ UNCHANGED <<uar, cfgVars, closeVars, pc, localVars, wg, batches, poolVars, inflight,
                   refVars, removed, wbuf, hist, cycle, exitPath, cycleVars>>

Next ==
    \/ Start
    \/ \E n \in 0..MaxDecode : DecodeOk(n)
    \/ \E k \in 0..MaxDecode : DecodeFail(k)
    \/ CheckState
    \/ Reacquire
    \/ ForwardOk
    \/ \E k \in 0..MaxDecode : ForwardFail(k)
    \/ \E b \in 1..Len(batches), i \in 1..MaxDecode : SubDone(b, i)
    \/ Wait
    \/ EncodeOk
    \/ \E k \in 0..MaxDecode : EncodeFail(k)
    \/ FlushOk
    \/ \E k \in 0..MaxDecode : FlushFail(k)
    \/ ResetAlloc
    \/ \E e \in ExtErrs : ExternalClose(e)
    \* only the handler's own cluster: the loop never reads another cluster's entry
    \/ TopologyChange(ClusterID)

Spec == Init /\ [][Next]_vars

\* ---- the loop as the allocator sees it ------------------------------------
\* One whole iteration of handle() that reaches line 149: Decode returned n
\* messages, they were forwarded, encoded, flushed and reset, and the
\* allocator runs with lastCount = n.
Cycle(n) ==
    /\ pc = "decode"
    /\ cycle < MaxCycles
    /\ n \in 0..Min(Cap(batches, messages), MaxDecode)
    /\ hist' = Append(hist, [cap |-> Cap(batches, messages), n |-> n])
    /\ nmsgs' = n
    /\ cycle' = cycle + 1
    /\ \E pick \in 0..(Len(batches) + 1) :
         LET r == allocMaxConcurrent(ResetMsgs(batches, messages, n), pool,
                                     messages, n, pick)
         IN /\ r.ok
            /\ messages' = r.messages
            /\ batches' = r.batches
            /\ pool' = r.pool
            /\ nPut' = nPut + r.put
            /\ nGet' = nGet + r.get
    /\ UNCHANGED <<uar, cfgVars, closeVars, pc, forwarder, encIdx, wg, inflight, current,
                   refVars, removed, wbuf, exitPath, cycleVars>>

NextAlloc ==
    \/ Start
    \/ \E n \in 0..MaxDecode : Cycle(n)

SpecAlloc == Init /\ [][NextAlloc]_vars

\* the goroutine of handle() is scheduled fairly, and every outstanding
\* sub-dispatch eventually signals
SubDoneAny == \E b \in 1..Len(batches), i \in 1..MaxDecode : SubDone(b, i)

SpecLive == Spec /\ WF_vars(Wait) /\ WF_vars(SubDoneAny)

\* construction followed by the loop's successful iterations
NextNew == (\E ct \in CacheTypes : NewHandler(ct)) \/ NextAlloc

SpecNew == InitNew /\ [][NextNew]_vars

\* ==== properties ============================================================
IsPrefix(s, t) == Len(s) <= Len(t) /\ \A i \in 1..Len(s) : s[i] = t[i]

\* requests of this cycle that a Forward call returning nil took
ForwardedOk ==
    IF nFwdCycle > 0 /\ lastFwd.ok THEN Len(lastFwd.reqs) ELSE 0

\* responses that reached the client in this cycle
FlushedThisCycle == Len(client)

\* C1: in every cycle, what has been encoded and flushed is in every state a
\* prefix of that cycle's requests in the order Decode returned them, and a
\* cycle that flushed successfully has delivered all of them, whatever order
\* the sub-dispatches completed in.
C1_FlushInDecodeOrder ==
    /\ IsPrefix(client \o wbuf, decoded)
    /\ pc = "reset" => client = decoded

C1_Witness ==
    pc = "reset" /\ nmsgs = 2 /\ doneOrder = <<2, 1>> /\ FlushedThisCycle = 2

\* C2: however many times the close path runs, the connection counter is
\* decremented once, the raw connection closed once, and the recorded error
\* is the error of the first invocation; before any invocation nothing changed.
C2_CloseIdempotent ==
    /\ closeCalls = 0 => closed = handlerOpening /\ conns = 1 /\ rawCloses = 0
    /\ closeCalls >= 1 =>
          closed = handlerClosed /\ conns = 0 /\ rawCloses = 1 /\ herr = firstErr

C2_Witness ==
    closeCalls = 3 /\ removed = 1 /\ exitPath = "decode" /\ herr = "shutdown"

\* C3 (as claimed): once the close flag is Closed it stays Closed and the
\* handler makes no further Forward call.
C3_NoForwardAfterClosed ==
    [][closed = handlerClosed =>
          closed' = handlerClosed /\ nFwdCycle' <= nFwdCycle]_vars

\* C4 (as claimed): no batch is ever requested with a capacity above the
\* configured maximum, for every base >= 1 and maximum >= base.
C4_CapWithinMax ==
    \A b \in 1..Len(batches) : Cap(batches, b) <= maxConcurrent

\* C5: from one cycle to the next the batch capacity never shrinks, once a
\* batch is held it is never below the base, and it grows only after a cycle
\* whose decoded count equalled its capacity.
C5_CapMonotone ==
    [][LET lm == Cap(batches, messages)
           lmNext == Cap(batches', messages')
       IN /\ lmNext >= lm
          /\ messages' # 0 => lmNext >= concurrent
          /\ lmNext > lm => nmsgs = lm]_vars

C5_Witness ==
    /\ pc = "decode"
    /\ concurrent = 2
    /\ Cap(batches, messages) = 4
    /\ nmsgs = 1

\* C6: every run of the allocator follows the reference rule: no batch yet ->
\* a batch of base capacity is drawn; capacity below the maximum and equal to
\* the last decoded count -> the batch is put back and one of capacity
\* lm * growth factor is drawn; otherwise the same batch is kept and the pool
\* is not touched.  With the defaults 2 and 1024, decoding 2 and then 1 gives
\* the capacities 2, 4, 4.
C6_AllocStep ==
    (pc \in {"init", "decode"} /\ (pc = "init" \/ cycle' # cycle)) =>
        LET lm == Cap(batches, messages)
            lmNext == Cap(batches', messages')
            lastCount == nmsgs'
        IN IF lm = 0
           THEN lmNext = concurrent /\ nGet' = nGet + 1 /\ messages' \notin pool'
           ELSE IF lm < maxConcurrent /\ lm = lastCount
           THEN /\ lmNext = lm * concurrent
                /\ nGet' = nGet + 1
                /\ nPut' = nPut + 1
                /\ messages' \notin pool'
                /\ messages' # messages => messages \in pool'
           ELSE /\ messages' = messages
                /\ nPut' = nPut
                /\ nGet' = nGet
                /\ pool' = pool

C6_Example ==
    (/\ concurrent = DefaultConcurrent
     /\ maxConcurrent = DefaultMaxConcurrent
     /\ Len(hist) >= 3
     /\ hist[1].n = 2
     /\ hist[2].n = 1) =>
        hist[1].cap = 2 /\ hist[2].cap = 4 /\ hist[3].cap = 4

C6_AllocRule == [][C6_AllocStep]_vars /\ []C6_Example

C6_Witness ==
    /\ concurrent = DefaultConcurrent
    /\ maxConcurrent = DefaultMaxConcurrent
    /\ Len(hist) = 3
    /\ hist[1].n = 2
    /\ hist[2].n = 1
    /\ nGet = 2
    /\ nPut = 1

\* C7: when the State() check after a successful Decode sees Closed and the
\* policy is to close, the handler is done and closed, this cycle has no
\* Forward call and no GetForwarder call.
C7_CloseOnTopologyChange ==
    (fState = ForwarderStateClosed /\ closeWhenChange) =>
        /\ pc = "done"
        /\ exitPath = "topology"
        /\ closed = handlerClosed
        /\ rawCloses = 1
        /\ nFwdCycle = 0
        /\ nAcqCycle = 0
        /\ forwarder = stale

C7_Witness ==
    exitPath = "topology" /\ nmsgs = 2 /\ herr = "nil" /\ closeCalls = 1

\* C8: when the State() check sees Closed and the policy is not to close, the
\* handler takes the cluster's current forwarder in that cycle and the
\* cycle's one Forward call goes to it, not to the stale one, with exactly
\* the requests Decode returned, in order.
C8_ReacquireAndForward ==
    (fState = ForwarderStateClosed /\ ~closeWhenChange) =>
        /\ pc # "reacquire" => /\ nAcqCycle = 1
                               /\ forwarder # stale
                               /\ forwarder[1] = ClusterID
                               /\ acquired[forwarder] = 1
        /\ pc \notin {"reacquire", "forward"} =>
              /\ nFwdCycle = 1
              /\ lastFwd.fwd = forwarder
              /\ lastFwd.fwd # stale
              /\ lastFwd.reqs = decoded
              /\ Len(decoded) = nmsgs

C8_Witness ==
    /\ fState = ForwarderStateClosed
    /\ ~closeWhenChange
    /\ pc = "reset"
    /\ nmsgs = 2
    /\ lastFwd.ok
    /\ lastFwd.fwd = <<ClusterID, 2>>

\* C9 (as claimed): at the end of every cycle, the successful one included,
\* every forwarder reference acquired so far has been released.
C9_ReleasedEveryCycle ==
    pc \in {"reset", "done"} => \A f \in AllFwd : released[f] = acquired[f]

\* C9 (amended): no reference is released more often than acquired; when the
\* loop has exited every acquired reference has been released exactly once;
\* while the loop runs exactly the held reference is outstanding.
C9_ReleasedOnExit ==
    /\ \A f \in AllFwd : released[f] <= acquired[f] /\ acquired[f] <= 1
    /\ pc = "done" => \A f \in AllFwd : released[f] = acquired[f]
    /\ pc \in {"decode", "check", "forward", "wait", "encode", "flush", "reset"} =>
          /\ acquired[forwarder] = 1 /\ released[forwarder] = 0
          /\ \A f \in AllFwd \ {forwarder} : released[f] = acquired[f]

C9_Witness ==
    /\ pc = "done"
    /\ exitPath = "flush"
    /\ acquired[<<ClusterID, 1>>] = 1 /\ released[<<ClusterID, 1>>] = 1
    /\ acquired[<<ClusterID, 2>>] = 1 /\ released[<<ClusterID, 2>>] = 1

\* C10 (as claimed): in every cycle that got past Forward, also one ending in
\* an encode or flush failure, as many responses were flushed as requests
\* were forwarded.
C10_FlushedEqualsForwarded ==
    (pc = "reset" \/ (pc = "done" /\ exitPath \in {"encode", "flush"})) =>
        FlushedThisCycle = ForwardedOk

\* C10 (amended): a cycle whose Flush succeeded has flushed exactly as many
\* responses as requests were forwarded; in every other state of a cycle, a
\* cycle ended by an encode or flush failure included, at most as many.
C10_FlushedAtMostForwarded ==
    /\ FlushedThisCycle <= ForwardedOk
    /\ pc = "reset" => FlushedThisCycle = ForwardedOk /\ ForwardedOk = nmsgs

C10_Witness ==
    /\ pc = "done"
    /\ exitPath = "encode"
    /\ ForwardedOk = 2
    /\ FlushedThisCycle = 1

\* C11 (as claimed): whenever Forward has been called in a cycle, the State()
\* check of that cycle was made on the very forwarder instance the batch was
\* dispatched to, and it returned Open; a forwarder re-acquired in the cycle
\* is no exception.
C11_ForwardTargetWasChecked ==
    nFwdCycle > 0 => (lastFwd.fwd = checked /\ fState = ForwarderStateOpening)

\* C12 (as claimed): a handler that left its loop on a Decode failure has
\* that decode error as its terminal error.
C12_DecodeErrorIsTerminal ==
    exitPath = "decode" => herr = "decode"

\* C12 (amended): a handler that left its loop on a Decode failure has
\* released its one forwarder reference, returned its batch to the pool, is
\* Closed, made no Forward, Encode or Flush call in that cycle and has
\* stopped; the terminal error is the error of the first close call, which
\* is the decode error unless another close came first.
C12_DecodeFailureCleanup ==
    exitPath = "decode" =>
        /\ pc = "done"
        /\ closed = handlerClosed
        /\ acquired[forwarder] = 1 /\ released[forwarder] = 1
        /\ messages \in pool
        /\ nFwdCycle = 0 /\ encIdx = 0 /\ wbuf = <<>> /\ client = <<>>
        /\ herr = firstErr
        /\ closeCalls = 1 => herr = "decode"

C12_Witness ==
    /\ pc = "done"
    /\ exitPath = "decode"
    /\ cycle = 2
    /\ herr = "decode"
    /\ messages \in pool
    /\ released[forwarder] = 1

\* C13: NewHandler with a cache type outside the four supported ones panics:
\* the gauge is not incremented and no cycle of the loop ever starts; with
\* each of the four supported types it returns a handler and has incremented
\* the gauge exactly once.
C13_ConstructionGate ==
    /\ constructed = "none" => gauge = 0 /\ pc = "init"
    /\ constructed = "panic" =>
          /\ ~IsSupported(cacheType)
          /\ gauge = 0
          /\ pc = "init" /\ cycle = 0 /\ messages = 0 /\ forwarder = NoFwd
    /\ constructed = "ok" =>
          /\ cacheType \in {"memcache", "memcache_binary", "redis", "redis_cluster"}
          /\ gauge = 1
    /\ \A ct \in {"memcache", "memcache_binary", "redis", "redis_cluster"} :
          constructed = "none" => ENABLED NewHandler(ct)

C13_Witness ==
    /\ constructed = "panic"
    /\ cacheType = "unknown"
    /\ gauge = 0

\* C14 (as claimed): the connection is deregistered in exactly the steps that
\* win the Opening -> Closed transition: a step that deregisters flips the
\* flag, and a step that flips the flag deregisters.
C14_DeregisterOnlyOnWinningClose ==
    [][(removed' # removed) <=> (closed = handlerOpening /\ closed' = handlerClosed)]_vars

\* C15: while the handler encodes, after a successful Forward, every
\* sub-dispatch of the current batch has signalled completion: none is
\* outstanding, the wait group is at zero and every response is in place.
C15_NoEncodeBeforeFanIn ==
    pc = "encode" =>
        /\ wg = 0
        /\ \A i \in 1..nmsgs : <<messages, i>> \notin inflight
        /\ Len(doneOrder) = nmsgs
        /\ \A i \in 1..nmsgs : batches[messages].slots[i].resp = batches[messages].slots[i].req

C15_Witness ==
    /\ pc = "encode"
    /\ lastFwd.ok
    /\ nmsgs = 2
    /\ doneOrder = <<2, 1>>
    /\ encIdx = 2

\* C16: when Forward has succeeded and every sub-dispatch eventually signals,
\* the wait returns and the cycle reaches its encode step (the flush at once
\* for an empty batch); as long as a sub-dispatch has not signalled, the
\* handler stays in the wait: it encodes nothing, flushes nothing and does
\* not run its close path.
C16_BarrierLiveness ==
    /\ (pc = "wait") ~> (pc \in {"encode", "flush"})
    /\ [][(pc = "wait" /\ wg > 0) =>
            (pc' = "wait" /\ encIdx' = encIdx /\ wbuf' = wbuf /\ client' = client
                          /\ removed' = removed /\ nPut' = nPut)]_vars

C16_Witness ==
    /\ pc = "encode"
    /\ encIdx = 1
    /\ wg = 0
    /\ lastFwd.ok
    /\ doneOrder = <<1, 2>>

\* C17 (as claimed): a batch that has been returned to the pool is touched by
\* nobody while it lies there: no step of the handler or of one of its
\* outstanding sub-dispatches changes a pooled batch.
C17_PooledBatchUntouched ==
    [][\A b \in pool \cap pool' : batches'[b] = batches[b]]_vars

IsReset(b) == \A i \in 1..Cap(batches, b) : batches[b].slots[i] = CleanSlot

\* C18: when Decode is about to be called every slot of the current batch is
\* in the reset state, and a batch lying in the pool with a slot that is not
\* reset can only be the batch a terminated handler returned through
\* deferHandle: the allocator returns reset batches only.
C18_SuccessPathClean ==
    /\ pc = "decode" => IsReset(messages)
    /\ \A b \in pool : ~IsReset(b) => (pc = "done" /\ b = messages)

C18_Witness ==
    /\ pc = "decode"
    /\ cycle = 1
    /\ hist = <<>>
    /\ pool = {1}
    /\ messages = 2
    /\ IsReset(1) /\ IsReset(2)

\* C19: the loop is left only through a decode, forward, encode or flush
\* error or through a Closed forwarder under the close policy; the handler is
\* then Closed, its batch is in the pool, the connection is deregistered and
\* every forwarder reference it acquired has been released exactly once; no
\* State, Forward or Encode call is ever made on a released reference.
C19_CleanTermination ==
    /\ ~uar
    /\ \A f \in AllFwd : released[f] <= acquired[f] /\ acquired[f] <= 1
    /\ pc # "done" => (exitPath = "none" /\ removed = 0)
    /\ pc = "done" =>
          /\ exitPath \in {"decode", "forward", "encode", "flush", "topology"}
          /\ exitPath = "topology" => (closeWhenChange /\ fState = ForwarderStateClosed)
          /\ closed = handlerClosed
          /\ messages # 0 /\ messages \in pool
          /\ removed = 1
          /\ acquired[forwarder] = 1
          /\ \A f \in AllFwd : released[f] = acquired[f]

C19_Witness ==
    /\ pc = "done"
    /\ exitPath = "forward"
    /\ nAcqCycle = 1
    /\ stale = <<ClusterID, 1>>
    /\ forwarder = <<ClusterID, 2>>
    /\ released[stale] = 1 /\ released[forwarder] = 1
    /\ removed = 1
    /\ messages \in pool

====
